---- MODULE Spec2Model ----
(***************************************************************************)
(* hoku/perform-e.py: the parallel experiment runner.  The runner splits   *)
(* -samples over -pnum pool tasks, each task calls bin/PerformE on its own *)
(* lumberjack database (recdb-i), and after the pool returns the runner    *)
(* copies every partition table into the master database and removes the   *)
(* partition files.                                                        *)
(***************************************************************************)
EXTENDS Integers, Sequences, FiniteSets, TLC

\* ------------------------------------------------------------------ bounds
MaxPnum == 3        \* largest -pnum of a run that is followed to its end
MaxSamples == 4     \* largest -samples of such a run
MaxRuns == 2        \* invocations of perform-e.py with the same command line
MaxWorkers == 11    \* largest -pnum given to the partitioning alone
MaxTotal == 12      \* largest -samples given to the partitioning alone
MaxRerunPnum == 2   \* largest -pnum of a run that is repeated after its end
MaxRerunSamples == 2 \* largest -samples of such a run
MaxTrials == 2      \* most data rows of a trial log given to connect-trials
MaxSetN == 3        \* largest set_n in such a log

\* The -recdb argument, as a sequence of characters.
RecDb == <<"d", "b">>

VARIABLES
    performE,      \* bin/PerformE on disk: "absent", "noexec" or "ok"
    cmdline,       \* sys.argv: what the user typed, the same on a retry
    run,           \* number of the current invocation of perform-e.py
    pc,            \* position of the main process
    exc,           \* exception that ended the main process, or "none"
    arguments,     \* global arguments (line 138), NoArgs until parsed
    simulations,   \* line 139
    task,          \* the pool's tasks, one per zip element (lines 142-144)
    fs,            \* the file system: path -> sqlite file
    main_db,       \* "closed" or "open" (line 147)
    pending,       \* rows inserted through main_cursor and not yet committed
    sec_dbs,       \* the list of line 155: paths of the opened connections
    j,             \* position of the for loop of line 155 in sec_dbs
    sec_records,   \* line 157
    r,             \* position of the for loop of line 162 in sec_records
    rm,            \* position of the map of line 170 in range(0, pnum)
    written,       \* history: every row a PerformE child has written
    master0,       \* history: rows in the master table when the run began
    fresh,         \* history: no partition file existed when the run began
    trials         \* script/python/connect-trials.py: its files and variables

vars == <<performE, cmdline, run, pc, exc, arguments, simulations, task, fs,
          main_db, pending, sec_dbs, j, sec_records, r, rm, written, master0,
          fresh, trials>>

NoArgs ==
    [parsed |-> FALSE, pnum |-> 0, samples |-> 0, recdb |-> <<>>,
     exper |-> "none"]

\* ------------------------------------------------- SCHEMAS and PREPARED

\* The choices of -exper (line 74).
Kinds == {"QUERY", "REDUCTION", "MAP"}

\* Lines 4-43: the columns of the experiment table, name and type.
SCHEMAS ==
    [QUERY |->
       <<<<"IdentificationMethod", "TEXT">>, <<"Timestamp", "TEXT">>,
         <<"Epsilon1", "FLOAT">>, <<"Epsilon2", "FLOAT">>,
         <<"Epsilon3", "FLOAT">>, <<"CandidateSetSize", "FLOAT">>,
         <<"RunningTime", "FLOAT">>, <<"SExistence", "INT">>>>,
     REDUCTION |->
       <<<<"IdentificationMethod", "TEXT">>, <<"Timestamp", "TEXT">>,
         <<"Epsilon1", "FLOAT">>, <<"Epsilon2", "FLOAT">>,
         <<"Epsilon3", "FLOAT">>, <<"ShiftDeviation", "FLOAT">>,
         <<"FalseStars", "INT">>, <<"RemovedBlobs", "INT">>,
         <<"QueryCount", "INT">>, <<"TimeToResult", "FLOAT">>,
         <<"PercentageCorrect", "FLOAT">>>>,
     MAP |->
       <<<<"IdentificationMethod", "TEXT">>, <<"Timestamp", "TEXT">>,
         <<"Epsilon1", "FLOAT">>, <<"Epsilon2", "FLOAT">>,
         <<"Epsilon3", "FLOAT">>, <<"Epsilon4", "FLOAT">>,
         <<"ShiftDeviation", "FLOAT">>, <<"FalseStars", "INT">>,
         <<"RemovedBlobs", "INT">>, <<"QueryCount", "INT">>,
         <<"TimeToResult", "FLOAT">>, <<"PercentageCorrect", "FLOAT">>,
         <<"IsErrorOut", "INT">>>>]

\* ''.join(['?, ' for _ in range(n)])
RECURSIVE Marks(_)
Marks(n) == IF n = 0 THEN <<>> ELSE <<"?", ",", " ">> \o Marks(n - 1)

\* The range(...) of each line of PREPARED.
PreparedRange == [QUERY |-> 7, REDUCTION |-> 10, MAP |-> 12]

\* The placeholders of QUERY for every experiment.
PreparedQuery(exper) == Marks(PreparedRange["QUERY"]) \o <<"?">>

\* Lines 44-48: PREPARED[exper], the placeholders of the INSERT.
Prepared(exper) == Marks(PreparedRange[exper]) \o <<"?">>

\* The number of parameters sqlite expects for a list of placeholders.
Placeholders(sql) == Cardinality({c \in 1 .. Len(sql) : sql[c] = "?"})

\* ---------------------------------------------------------- pure functions

\* Python's round(samples / pnum): true division, then round half to even.
RoundHalfEven(n, d) ==
    LET q == n \div d
        m == n % d
    IN  IF 2 * m < d THEN q
        ELSE IF 2 * m > d THEN q + 1
        ELSE IF q % 2 = 0 THEN q ELSE q + 1

\* The quotient of the integer division and one more.
RoundAbove(samples, pnum) == samples \div pnum + 1

\* Integer division in place of round().
RoundFloor(samples, pnum) == samples \div pnum

Round(samples, pnum) ==
    IF pnum > 0 THEN RoundHalfEven(samples, pnum)
    ELSE RoundHalfEven(-samples, -pnum)

Digit(d) == <<"0", "1", "2", "3", "4", "5", "6", "7", "8", "9">>[d + 1]

\* Only the last digit of the index.
DecLastDigit(i) == <<Digit(i % 10)>>

\* str(i) for i >= 0, as the f-string f'-{i}' formats it.
RECURSIVE Dec(_)
Dec(i) == IF i < 10 THEN <<Digit(i)>> ELSE Dec(i \div 10) \o <<Digit(i % 10)>>

\* The suffix without the index.
PartPathNoIndex(recdb, i) == recdb \o <<"-">> \o Dec(0)

\* The destination path without any suffix.
PartPathBase(recdb, i) == recdb

\* arguments.recdb + f'-{i}'
PartPath(recdb, i) == recdb \o <<"-">> \o Dec(i)

\* range(pnum)
Range(pnum) == 0 .. (pnum - 1)

\* The list for the indices 1 .. pnum.
PartPathsFromOne(recdb, pnum) ==
    [k \in 1 .. (IF pnum > 0 THEN pnum ELSE 0) |-> PartPath(recdb, k)]

\* [arguments.recdb + f'-{i}' for i in range(pnum)]
PartPaths(recdb, pnum) ==
    [k \in 1 .. (IF pnum > 0 THEN pnum ELSE 0) |-> PartPath(recdb, k - 1)]

\* -------------------------------------------------------------- the files

NoFile == [exists |-> FALSE, table |-> FALSE, rows |-> <<>>]
EmptyDb == [exists |-> TRUE, table |-> FALSE, rows |-> <<>>]

AllPaths == {RecDb} \cup {PartPath(RecDb, i) : i \in Range(MaxWorkers)}

\* sqlite3.connect(path): an absent file is created, empty.
Connect(f, path) ==
    IF f[path].exists THEN f ELSE [f EXCEPT ![path] = EmptyDb]

\* CREATE TABLE after a DROP TABLE: the table is made anew.
CreateTableAnew(f, path) ==
    [f EXCEPT ![path] = [exists |-> TRUE, table |-> TRUE, rows |-> <<>>]]

\* CREATE TABLE IF NOT EXISTS etable: nothing changes when the table exists.
CreateTable(f, path) ==
    IF f[path].table THEN f
    ELSE [f EXCEPT ![path] = [exists |-> TRUE, table |-> TRUE, rows |-> <<>>]]

\* The record put before the rows already there.
InsertRowFirst(rows, record) == <<record>> \o rows

\* The record bound to the placeholders in reverse.
InsertRowReversed(rows, record) ==
    Append(rows, [c \in 1 .. Len(record) |-> record[Len(record) + 1 - c]])

\* The record inserted twice.
InsertRowTwice(rows, record) == Append(Append(rows, record), record)

\* INSERT INTO etable VALUES (?, ..., ?) with the record bound in order.
InsertRow(rows, record) == Append(rows, record)

\* A remove that leaves the file.
RemoveNothing(f, path) == f

\* os.remove(path)
Remove(f, path) == [f EXCEPT ![path] = NoFile]

MasterRows == fs[RecDb].rows

\* ------------------------------------------------------------- the state

NoTasks == [i \in {} |-> 0]

Finished == {"done", "error", "crashed"}

PartitionFiles == {p \in AllPaths \ {RecDb} : fs[p].exists}

\* The state when perform-e.py is first started, on a disk without any
\* database, for the command lines with -exper in kinds, -pnum <= maxPnum
\* and -samples <= maxSamples.
Started(kinds, maxPnum, maxSamples) ==
    /\ performE \in {"absent", "noexec", "ok"}
    /\ cmdline \in [pnum : (-1) .. maxPnum, samples : 0 .. maxSamples,
                    recdb : {RecDb}, exper : kinds]
    /\ run = 1
    /\ pc = "start"
    /\ exc = "none"
    /\ arguments = NoArgs
    /\ simulations = 0
    /\ task = NoTasks
    /\ fs = [p \in AllPaths |-> NoFile]
    /\ main_db = "closed"
    /\ pending = <<>>
    /\ sec_dbs = <<>>
    /\ j = 1
    /\ sec_records = <<>>
    /\ r = 1
    /\ rm = 0
    /\ written = {}
    /\ master0 = 0
    /\ fresh = TRUE

\* connect-trials.py is not run.
NoTrials ==
    [pc |-> "idle", exc |-> "none", d |-> FALSE,
     base_f |-> [exists |-> FALSE, rows |-> <<>>],
     append_f |-> [exists |-> FALSE, rows |-> <<>>],
     tmp |-> [exists |-> FALSE, rows |-> <<>>],
     base_ell |-> <<>>, append_ell |-> <<>>, set_n_app |-> 0]

InitKinds(kinds, maxPnum, maxSamples) ==
    /\ Started(kinds, maxPnum, maxSamples)
    /\ trials = NoTrials

\* The command lines with -exper QUERY.
InitWith(maxPnum, maxSamples) == InitKinds({"QUERY"}, maxPnum, maxSamples)

Init == InitWith(MaxPnum, MaxSamples)

\* An unhandled exception: the traceback ends the process, and the
\* connection to the master database goes away without a commit.
Raise(e) ==
    /\ exc' = e
    /\ pc' = "error"
    /\ main_db' = "closed"
    /\ pending' = <<>>

\* ------------------------------------------------------ the main process

\* Lines 134-137: without bin/PerformE the runner prints a message and ends.
CheckBinary ==
    /\ pc = "start"
    /\ pc' = IF performE = "absent" THEN "done" ELSE "args"
    /\ UNCHANGED <<trials, performE, cmdline, run, exc, arguments, simulations, task,
                   fs, main_db, pending, sec_dbs, j, sec_records, r, rm,
                   written, master0, fresh>>

\* Lines 138-139: parse the arguments, divide the samples over the processes.
GetArguments ==
    /\ pc = "args"
    /\ arguments' = [parsed |-> TRUE, pnum |-> cmdline.pnum,
                     samples |-> cmdline.samples, recdb |-> cmdline.recdb,
                     exper |-> cmdline.exper]
    /\ IF cmdline.pnum = 0
       THEN /\ Raise("ZeroDivisionError")
            /\ UNCHANGED simulations
       ELSE /\ simulations' = Round(cmdline.samples, cmdline.pnum)
            /\ pc' = "pool"
            /\ UNCHANGED <<exc, main_db, pending>>
    /\ UNCHANGED <<trials, performE, cmdline, run, task, fs, sec_dbs, j, sec_records,
                   r, rm, written, master0, fresh>>

\* A value of the command line that execute_chunk hands on as it is (or
\* through str): one argument, named after the attribute of arguments.
Fixed(name) == <<name>>

\* The list with the database and the sample count as its last two elements.
ArgvPathLast(recdb, samples) ==
    <<Fixed("PerformE"), Fixed("refdb"), Fixed("hip"), Fixed("bright"),
      Fixed("rtable"), Fixed("etable"), Fixed("SCHEMAS[exper]"),
      Fixed("strategy"), Fixed("prefix"), Fixed("ep1"), Fixed("ep2"),
      Fixed("ep3"), Fixed("ep4"), Fixed("nlimit"), Fixed("mlimit"),
      Fixed("nulimit"), Fixed("exper"), Fixed("imfov"), Fixed("ssiter"),
      Fixed("ssstep"), Fixed("esmin"), Fixed("esiter"), Fixed("esstep"),
      Fixed("rmiter"), Fixed("rmstep"), Fixed("rmsigma"), recdb, Dec(samples)>>

\* The list with the database of the partition also in the place of the
\* prefix.
ArgvPathAsPrefix(recdb, samples) ==
    <<Fixed("PerformE"), Fixed("refdb"), recdb, Fixed("hip"), Fixed("bright"),
      Fixed("rtable"), Fixed("etable"), Fixed("SCHEMAS[exper]"),
      Fixed("strategy"), recdb, Fixed("ep1"), Fixed("ep2"),
      Fixed("ep3"), Fixed("ep4"), Fixed("nlimit"), Fixed("mlimit"),
      Fixed("nulimit"), Fixed("exper"), Dec(samples), Fixed("imfov"),
      Fixed("ssiter"), Fixed("ssstep"), Fixed("esmin"), Fixed("esiter"),
      Fixed("esstep"), Fixed("rmiter"), Fixed("rmstep"), Fixed("rmsigma")>>

\* Lines 93-122: the list given to call, the executable first; recdb is
\* the database of the partition and str(samples) its sample count.
Argv(recdb, samples) ==
    <<Fixed("PerformE"), Fixed("refdb"), recdb, Fixed("hip"), Fixed("bright"),
      Fixed("rtable"), Fixed("etable"), Fixed("SCHEMAS[exper]"),
      Fixed("strategy"), Fixed("prefix"), Fixed("ep1"), Fixed("ep2"),
      Fixed("ep3"), Fixed("ep4"), Fixed("nlimit"), Fixed("mlimit"),
      Fixed("nulimit"), Fixed("exper"), Dec(samples), Fixed("imfov"),
      Fixed("ssiter"), Fixed("ssstep"), Fixed("esmin"), Fixed("esiter"),
      Fixed("esstep"), Fixed("rmiter"), Fixed("rmstep"), Fixed("rmsigma")>>

\* One element of the zip of lines 142-144: the arguments of execute_chunk;
\* argv is the list of the call once the task has made it.
NewTask(recdb, samples) ==
    [st |-> "queued", recdb |-> recdb, samples |-> samples,
     opened |-> FALSE, n |-> 0, rc |-> 0, argv |-> <<>>]

\* A pool that takes any number of processes.
StartPoolUnchecked ==
    /\ pc = "pool"
    /\ task' = [i \in Range(arguments.pnum) |->
                  NewTask(PartPath(arguments.recdb, i), simulations)]
    /\ pc' = "starmap"
    /\ UNCHANGED <<trials, performE, cmdline, run, exc, arguments, simulations, fs,
                   main_db, pending, sec_dbs, j, sec_records, r, rm, written,
                   master0, fresh>>

\* Lines 142-144: Pool(pnum) and the tasks handed to starmap.
StartPool ==
    /\ pc = "pool"
    /\ IF arguments.pnum < 1
       THEN /\ Raise("ValueError")
            /\ UNCHANGED task
       ELSE /\ task' = [i \in Range(arguments.pnum) |->
                          NewTask(PartPaths(arguments.recdb, arguments.pnum)[i + 1],
                                  simulations)]
            /\ pc' = "starmap"
            /\ UNCHANGED <<exc, main_db, pending>>
    /\ UNCHANGED <<trials, performE, cmdline, run, arguments, simulations, fs,
                   sec_dbs, j, sec_records, r, rm, written, master0, fresh>>

\* A pool that returns only when every child has exited with status 0.
AllReturnedZero ==
    \A i \in DOMAIN task :
        task[i].st \in {"exited", "raised"} /\ task[i].rc = 0

\* A pool that returns with the first task that is over.
SomeReturned == \E i \in DOMAIN task : task[i].st \in {"exited", "raised"}

\* starmap returns once every task has returned or raised; the first
\* exception of a task is raised again in the main process.
AllReturned == \A i \in DOMAIN task : task[i].st \in {"exited", "raised"}

Barrier ==
    /\ pc = "starmap"
    /\ AllReturned
    /\ IF \E i \in DOMAIN task : task[i].st = "raised"
       THEN Raise("PermissionError")
       ELSE /\ pc' = "connect"
            /\ UNCHANGED <<exc, main_db, pending>>
    /\ UNCHANGED <<trials, performE, cmdline, run, arguments, simulations, task, fs,
                   sec_dbs, j, sec_records, r, rm, written, master0, fresh>>

\* Lines 147-148.
ConnectMain ==
    /\ pc = "connect"
    /\ fs' = Connect(fs, arguments.recdb)
    /\ main_db' = "open"
    /\ pc' = "create"
    /\ UNCHANGED <<trials, performE, cmdline, run, exc, arguments, simulations, task,
                   pending, sec_dbs, j, sec_records, r, rm, written, master0,
                   fresh>>

\* Lines 149-153.
CreateMaster ==
    /\ pc = "create"
    /\ fs' = CreateTable(fs, arguments.recdb)
    /\ pc' = "open"
    /\ UNCHANGED <<trials, performE, cmdline, run, exc, arguments, simulations, task,
                   main_db, pending, sec_dbs, j, sec_records, r, rm, written,
                   master0, fresh>>

\* connect(a) mapped over a list of paths, as list(map(...)) of line 155.
RECURSIVE ConnectAll(_, _)
ConnectAll(f, paths) ==
    IF paths = <<>> THEN f
    ELSE ConnectAll(Connect(f, Head(paths)), Tail(paths))

\* Line 155: every partition database is opened before the loop starts.
OpenPartitions ==
    /\ pc = "open"
    /\ sec_dbs' = PartPaths(arguments.recdb, arguments.pnum)
    /\ fs' = ConnectAll(fs, PartPaths(arguments.recdb, arguments.pnum))
    /\ j' = 1
    /\ pc' = "select"
    /\ UNCHANGED <<trials, performE, cmdline, run, exc, arguments, simulations, task,
                   main_db, pending, sec_records, r, rm, written, master0,
                   fresh>>

\* Lines 156-160: SELECT * FROM etable on the j-th partition database.
SelectRecords ==
    /\ pc = "select"
    /\ j <= Len(sec_dbs)
    /\ IF fs[sec_dbs[j]].table
       THEN /\ sec_records' = fs[sec_dbs[j]].rows
            /\ r' = 1
            /\ pc' = "insert"
            /\ UNCHANGED <<exc, main_db, pending>>
       ELSE /\ Raise("OperationalError")
            /\ UNCHANGED <<sec_records, r>>
    /\ UNCHANGED <<trials, performE, cmdline, run, arguments, simulations, task, fs,
                   sec_dbs, j, rm, written, master0, fresh>>

\* Lines 162-166: one INSERT through main_cursor; sqlite raises
\* ProgrammingError when the record has not as many values as the
\* statement has placeholders.
InsertRecord ==
    /\ pc = "insert"
    /\ r <= Len(sec_records)
    /\ IF Placeholders(Prepared(arguments.exper)) = Len(sec_records[r])
       THEN /\ pending' = InsertRow(pending, sec_records[r])
            /\ r' = r + 1
            /\ UNCHANGED <<pc, exc, main_db>>
       ELSE /\ Raise("ProgrammingError")
            /\ UNCHANGED r
    /\ UNCHANGED <<trials, performE, cmdline, run, arguments, simulations, task, fs,
                   sec_dbs, j, sec_records, rm, written, master0, fresh>>

\* Lines 162-166, an INSERT that sqlite refuses (the disk is full, the
\* master database is locked): execute raises and nothing catches it.
InsertFails ==
    /\ pc = "insert"
    /\ r <= Len(sec_records)
    /\ Raise("DatabaseError")
    /\ UNCHANGED <<trials, performE, cmdline, run, arguments, simulations, task, fs,
                   sec_dbs, j, sec_records, r, rm, written, master0, fresh>>

\* A close that also removes the database of the partition.
ClosePartitionRemoving ==
    /\ pc = "insert"
    /\ r > Len(sec_records)
    /\ j' = j + 1
    /\ pc' = "select"
    /\ fs' = Remove(fs, sec_dbs[j])
    /\ UNCHANGED <<trials, performE, cmdline, run, exc, arguments, simulations, task,
                   main_db, pending, sec_dbs, sec_records, r, rm, written,
                   master0, fresh>>

\* Line 167.
ClosePartition ==
    /\ pc = "insert"
    /\ r > Len(sec_records)
    /\ j' = j + 1
    /\ pc' = "select"
    /\ UNCHANGED <<trials, performE, cmdline, run, exc, arguments, simulations, task,
                   fs, main_db, pending, sec_dbs, sec_records, r, rm,
                   written, master0, fresh>>

\* A commit that is left out.
CommittedNothing(f, path, rows) == f

\* main_db.commit(): the inserted rows become part of the master table.
Committed(f, path, rows) == [f EXCEPT ![path].rows = f[path].rows \o rows]

\* Line 169.
Commit ==
    /\ pc = "select"
    /\ j > Len(sec_dbs)
    /\ fs' = Committed(fs, arguments.recdb, pending)
    /\ pending' = <<>>
    /\ rm' = 0
    /\ pc' = "remove"
    /\ UNCHANGED <<trials, performE, cmdline, run, exc, arguments, simulations, task,
                   main_db, sec_dbs, j, sec_records, r, written, master0,
                   fresh>>

\* Line 170, one element of range(0, pnum).
RemovePartition ==
    /\ pc = "remove"
    /\ rm < arguments.pnum
    /\ IF fs[PartPath(arguments.recdb, rm)].exists
       THEN /\ fs' = Remove(fs, PartPath(arguments.recdb, rm))
            /\ rm' = rm + 1
            /\ UNCHANGED <<pc, exc, main_db, pending>>
       ELSE /\ Raise("FileNotFoundError")
            /\ UNCHANGED <<fs, rm>>
    /\ UNCHANGED <<trials, performE, cmdline, run, arguments, simulations, task,
                   sec_dbs, j, sec_records, r, written, master0, fresh>>

\* The end of the script.
Finish ==
    /\ pc = "remove"
    /\ rm >= arguments.pnum
    /\ pc' = "done"
    /\ main_db' = "closed"
    /\ UNCHANGED <<trials, performE, cmdline, run, exc, arguments, simulations, task,
                   fs, pending, sec_dbs, j, sec_records, r, rm, written,
                   master0, fresh>>


\* ------------------------------------------------------- the pool's tasks

\* A call made again for a task whose child has exited.
LaunchAgain(i) ==
    /\ pc = "starmap"
    /\ task[i].st \in {"queued", "exited"}
    /\ task' = [task EXCEPT ![i].st =
                              IF performE = "ok" THEN "running" ELSE "raised",
                            ![i].argv = Argv(task[i].recdb, task[i].samples)]
    /\ UNCHANGED <<trials, performE, cmdline, run, pc, exc, arguments, simulations,
                   fs, main_db, pending, sec_dbs, j, sec_records, r, rm,
                   written, master0, fresh>>

\* A call that starts the child whatever bin/PerformE is.
LaunchAlways(i) ==
    /\ pc = "starmap"
    /\ task[i].st = "queued"
    /\ task' = [task EXCEPT ![i].st = "running",
                            ![i].argv = Argv(task[i].recdb, task[i].samples)]
    /\ UNCHANGED <<trials, performE, cmdline, run, pc, exc, arguments, simulations,
                   fs, main_db, pending, sec_dbs, j, sec_records, r, rm,
                   written, master0, fresh>>

\* Lines 90-122, the call: the child is started, or call raises because
\* bin/PerformE cannot be executed.
Launch(i) ==
    /\ pc = "starmap"
    /\ task[i].st = "queued"
    /\ task' = [task EXCEPT ![i].st =
                              IF performE = "ok" THEN "running" ELSE "raised",
                            ![i].argv = Argv(task[i].recdb, task[i].samples)]
    /\ UNCHANGED <<trials, performE, cmdline, run, pc, exc, arguments, simulations,
                   fs, main_db, pending, sec_dbs, j, sec_records, r, rm,
                   written, master0, fresh>>

\* PerformE opens the lumberjack database it was given and creates the
\* experiment table when it is not there.
WorkerOpen(i) ==
    /\ pc = "starmap"
    /\ task[i].st = "running"
    /\ ~task[i].opened
    /\ fs' = CreateTable(Connect(fs, task[i].recdb), task[i].recdb)
    /\ task' = [task EXCEPT ![i].opened = TRUE]
    /\ UNCHANGED <<trials, performE, cmdline, run, pc, exc, arguments, simulations,
                   main_db, pending, sec_dbs, j, sec_records, r, rm, written,
                   master0, fresh>>

\* The row of the k-th trial of task i in this run: a value for every
\* column of the schema PerformE was given, the first three telling the
\* rows apart.
Row(i, k) ==
    [c \in 1 .. Len(SCHEMAS[cmdline.exper]) |->
       IF c = 1 THEN run ELSE IF c = 2 THEN i ELSE IF c = 3 THEN k ELSE 0]

\* PerformE logs the result of one trial: a row appended to its table.
WorkerWrite(i) ==
    /\ pc = "starmap"
    /\ task[i].st = "running"
    /\ task[i].opened
    /\ task[i].n < task[i].samples
    /\ fs' = [fs EXCEPT ![task[i].recdb].rows =
                 Append(fs[task[i].recdb].rows, Row(i, task[i].n + 1))]
    /\ written' = written \cup {Row(i, task[i].n + 1)}
    /\ task' = [task EXCEPT ![i].n = task[i].n + 1]
    /\ UNCHANGED <<trials, performE, cmdline, run, pc, exc, arguments, simulations,
                   main_db, pending, sec_dbs, j, sec_records, r, rm, master0,
                   fresh>>

\* The child exits and call returns its status, which execute_chunk drops.
\* Status 0 is the child's success: all its trials are logged.  A failing
\* child exits at any point, also before it has opened its database.
WorkerExit(i, rc) ==
    /\ pc = "starmap"
    /\ task[i].st = "running"
    /\ rc = 0 => (task[i].opened /\ task[i].n = task[i].samples)
    /\ task' = [task EXCEPT ![i].st = "exited", ![i].rc = rc]
    /\ UNCHANGED <<trials, performE, cmdline, run, pc, exc, arguments, simulations,
                   fs, main_db, pending, sec_dbs, j, sec_records, r, rm,
                   written, master0, fresh>>

\* ------------------------------------------------------- the environment

\* The runner and its children are killed (the machine goes down, the
\* terminal is closed): the memory of the processes is gone and nothing
\* uncommitted survives; the files stay as they are.
Crash ==
    /\ pc \notin Finished
    /\ pc' = "crashed"
    /\ main_db' = "closed"
    /\ pending' = <<>>
    /\ task' = NoTasks
    /\ arguments' = NoArgs
    /\ simulations' = 0
    /\ sec_dbs' = <<>>
    /\ j' = 1
    /\ sec_records' = <<>>
    /\ r' = 1
    /\ rm' = 0
    /\ UNCHANGED <<trials, performE, cmdline, run, exc, fs, written, master0, fresh>>

\* The user runs perform-e.py again with the same command line.
Retry ==
    /\ pc \in Finished
    /\ run < MaxRuns
    /\ run' = run + 1
    /\ pc' = "start"
    /\ exc' = "none"
    /\ arguments' = NoArgs
    /\ simulations' = 0
    /\ task' = NoTasks
    /\ sec_dbs' = <<>>
    /\ j' = 1
    /\ sec_records' = <<>>
    /\ r' = 1
    /\ rm' = 0
    /\ master0' = Len(MasterRows)
    /\ fresh' = (PartitionFiles = {})
    /\ UNCHANGED <<trials, performE, cmdline, fs, main_db, pending, written>>

\* The user runs the finished command again: the master table collects
\* the rows of one experiment after another.
Rerun ==
    /\ pc = "done"
    /\ Retry

\* Something else deletes the database of a partition while the runner
\* is at its cleanup.
Vanish(p) ==
    /\ pc = "remove"
    /\ p \in AllPaths \ {cmdline.recdb}
    /\ fs[p].exists
    /\ fs' = [fs EXCEPT ![p] = NoFile]
    /\ UNCHANGED <<trials, performE, cmdline, run, pc, exc, arguments, simulations,
                   task, main_db, pending, sec_dbs, j, sec_records, r, rm,
                   written, master0, fresh>>

\* The exit status of the finished process: 1 after a traceback, else 0
\* (nothing in the script calls exit).
ExitStatus == IF pc = "error" THEN 1 ELSE 0

\* ------------------------------------- script/python/connect-trials.py

performVars ==
    <<performE, cmdline, run, pc, exc, arguments, simulations, task, fs,
      main_db, pending, sec_dbs, j, sec_records, r, rm, written, master0,
      fresh>>

\* int(s) of a decimal numeral.
RECURSIVE IntOf(_)
IntOf(s) ==
    IF s = <<>> THEN 0
    ELSE LET last == s[Len(s)]
             d == CHOOSE x \in 0 .. 9 : Digit(x) = last
         IN  10 * IntOf(SubSeq(s, 1, Len(s) - 1)) + d

\* The header row of a trial log.
Header(name) == <<<<"SetNumber">>, <<name>>>>

\* A data row of a trial log: the set number and the rest of the row.
Trial(set_n, rest) == <<Dec(set_n), <<rest>>>>

TrialRows == {Trial(n, x) : n \in 1 .. MaxSetN, x \in {"x", "y"}}

\* The data rows of a trial log, at most MaxTrials of them.
TrialLogs ==
    UNION {[1 .. n -> TrialRows] : n \in 0 .. MaxTrials}

\* Line 33: the entries with int(entry[0]) < set_n_app, in their order.
RECURSIVE Kept(_, _)
Kept(ell, set_n_app) ==
    IF ell = <<>> THEN <<>>
    ELSE (IF IntOf(Head(ell)[1]) < set_n_app THEN <<Head(ell)>> ELSE <<>>)
             \o Kept(Tail(ell), set_n_app)

\* connect-trials [base-file] [file-to-append] [d] is started: both logs
\* are there, each with its header; the temporary file may be left over.
InitConnect ==
    /\ Started({"QUERY"}, -1, 0)
    /\ performE = "absent"
    /\ \E base \in TrialLogs, app \in TrialLogs, left \in BOOLEAN,
          d \in BOOLEAN :
         trials = [pc |-> "start", exc |-> "none", d |-> d,
                   base_f |-> [exists |-> TRUE,
                               rows |-> <<Header("base")>> \o base],
                   append_f |-> [exists |-> TRUE,
                                 rows |-> <<Header("append")>> \o app],
                   tmp |-> [exists |-> left,
                            rows |-> IF left THEN <<Header("old")>> ELSE <<>>],
                   base_ell |-> <<>>, append_ell |-> <<>>, set_n_app |-> 0]

\* An exception inside the with block: the files are closed, the script ends.
TrialsRaise(e) == trials' = [trials EXCEPT !.pc = "error", !.exc = e]

\* Lines 17-21: the temporary file is removed if it is there.
ClearTmp ==
    /\ trials.pc = "start"
    /\ trials' = [trials EXCEPT !.pc = "open",
                                !.tmp = [exists |-> FALSE, rows |-> <<>>]]
    /\ UNCHANGED performVars

\* Lines 24-26: the three files are opened and the two logs read.
ReadLogs ==
    /\ trials.pc = "open"
    /\ trials' = [trials EXCEPT !.pc = "header",
                                !.tmp = [exists |-> TRUE, rows |-> <<>>],
                                !.base_ell = trials.base_f.rows,
                                !.append_ell = trials.append_f.rows]
    /\ UNCHANGED performVars

\* Line 29: connect_w.writerow(base_ell[0])
WriteHeader ==
    /\ trials.pc = "header"
    /\ IF trials.base_ell = <<>>
       THEN TrialsRaise("IndexError")
       ELSE trials' = [trials EXCEPT !.pc = "set_n",
                                     !.tmp.rows = <<trials.base_ell[1]>>]
    /\ UNCHANGED performVars

\* Line 32: set_n_app = int(append_ell[1][0])
ReadSetN ==
    /\ trials.pc = "set_n"
    /\ IF Len(trials.append_ell) < 2
       THEN TrialsRaise("IndexError")
       ELSE trials' = [trials EXCEPT !.pc = "base",
                                     !.set_n_app = IntOf(trials.append_ell[2][1])]
    /\ UNCHANGED performVars

\* Line 33: the entries of the base log below set_n_app are written.
CopyBase ==
    /\ trials.pc = "base"
    /\ trials' = [trials EXCEPT
                    !.pc = "append",
                    !.tmp.rows = trials.tmp.rows
                                   \o Kept(Tail(trials.base_ell),
                                           trials.set_n_app)]
    /\ UNCHANGED performVars

\* Line 36: connect_w.writerows(append_ell[1:])
CopyAppend ==
    /\ trials.pc = "append"
    /\ trials' = [trials EXCEPT
                    !.pc = "replace",
                    !.tmp.rows = trials.tmp.rows \o Tail(trials.append_ell)]
    /\ UNCHANGED performVars

\* Line 39: os.remove(sys.argv[1])
RemoveBase ==
    /\ trials.pc = "replace"
    /\ trials' = [trials EXCEPT !.pc = "rename",
                                !.base_f = [exists |-> FALSE, rows |-> <<>>]]
    /\ UNCHANGED performVars

\* Line 40: os.rename(tmp, sys.argv[1])
RenameTmp ==
    /\ trials.pc = "rename"
    /\ trials' = [trials EXCEPT !.pc = "delete",
                                !.base_f = trials.tmp,
                                !.tmp = [exists |-> FALSE, rows |-> <<>>]]
    /\ UNCHANGED performVars

\* Lines 42-44: with a third argument d the appended log is removed.  The
\* test is sys.argv[3] is 'd', the identity of two equal strings, which
\* the interpreter decides.
RemoveAppend ==
    /\ trials.pc = "delete"
    /\ \E same \in BOOLEAN :
         trials' = [trials EXCEPT
                      !.pc = "done",
                      !.append_f = IF trials.d /\ same
                                   THEN [exists |-> FALSE, rows |-> <<>>]
                                   ELSE trials.append_f]
    /\ UNCHANGED performVars

NextConnect ==
    \/ ClearTmp
    \/ ReadLogs
    \/ WriteHeader
    \/ ReadSetN
    \/ CopyBase
    \/ CopyAppend
    \/ RemoveBase
    \/ RenameTmp
    \/ RemoveAppend

SpecConnect == InitConnect /\ [][NextConnect]_vars

\* One invocation of perform-e.py, which may be killed.
Next ==
    \/ CheckBinary
    \/ GetArguments
    \/ StartPool
    \/ \E i \in DOMAIN task : Launch(i)
    \/ \E i \in DOMAIN task : WorkerOpen(i)
    \/ \E i \in DOMAIN task : WorkerWrite(i)
    \/ \E i \in DOMAIN task : \E rc \in {0, 1} : WorkerExit(i, rc)
    \/ Barrier
    \/ ConnectMain
    \/ CreateMaster
    \/ OpenPartitions
    \/ SelectRecords
    \/ InsertRecord
    \/ InsertFails
    \/ ClosePartition
    \/ Commit
    \/ RemovePartition
    \/ Finish
    \/ Crash

Spec == Init /\ [][Next]_vars

\* Invocations repeated with the same command line on the same disk.
NextRetry ==
    \/ Next
    \/ Retry

SpecRetry == Init /\ [][NextRetry]_vars

\* Completed invocations repeated on the same disk.
NextRerun ==
    \/ Next
    \/ Rerun

InitRerun == InitWith(MaxRerunPnum, MaxRerunSamples)

SpecRerun == InitRerun /\ [][NextRerun]_vars

\* The steps of the main process when every operation on a database
\* succeeds.
MainStep ==
    \/ CheckBinary
    \/ GetArguments
    \/ StartPool
    \/ Barrier
    \/ ConnectMain
    \/ CreateMaster
    \/ OpenPartitions
    \/ SelectRecords
    \/ InsertRecord
    \/ ClosePartition
    \/ Commit
    \/ RemovePartition
    \/ Finish

\* One invocation that nothing kills and in which no INSERT is refused.
NextLive ==
    \/ MainStep
    \/ \E i \in DOMAIN task : Launch(i)
    \/ \E i \in DOMAIN task : WorkerOpen(i)
    \/ \E i \in DOMAIN task : WorkerWrite(i)
    \/ \E i \in DOMAIN task : \E rc \in {0, 1} : WorkerExit(i, rc)

\* The main process and the children go on while they can: call returns
\* when the child exits, and every child started does exit.
SpecLive == InitRerun /\ [][NextLive]_vars /\ WF_vars(NextLive)

\* One invocation for each choice of -exper.
InitSchema == InitKinds(Kinds, MaxRerunPnum, MaxRerunSamples)

SpecSchema == InitSchema /\ [][Next]_vars

\* One invocation on a disk that something else deletes files from.
NextDisk ==
    \/ Next
    \/ \E p \in AllPaths : Vanish(p)

SpecDisk == Init /\ [][NextDisk]_vars

\* The partitioning alone (lines 134-144), for larger command lines.
InitPartition == InitWith(MaxWorkers, MaxTotal)

NextPartition ==
    \/ CheckBinary
    \/ GetArguments
    \/ StartPool

SpecPartition == InitPartition /\ [][NextPartition]_vars

TypeOK ==
    /\ pc \in {"start", "args", "pool", "starmap", "connect", "create", "open",
               "select", "insert", "remove"} \cup Finished
    /\ run \in 1 .. MaxRuns
    /\ \A p \in AllPaths : fs[p].table => fs[p].exists

\* ------------------------------------------------------------ properties

InSeq(x, seq) == \E k \in 1 .. Len(seq) : seq[k] = x

Count(x, seq) == Cardinality({k \in 1 .. Len(seq) : seq[k] = x})

RECURSIVE SumSamples(_)
SumSamples(S) ==
    IF S = {} THEN 0
    ELSE LET i == CHOOSE x \in S : TRUE
         IN  task[i].samples + SumSamples(S \ {i})

\* The rows of the first n databases of the list, one database after another.
RECURSIVE StoreRows(_, _)
StoreRows(paths, n) ==
    IF n = 0 THEN <<>> ELSE StoreRows(paths, n - 1) \o fs[paths[n]].rows

Tail0(seq, n) == SubSeq(seq, n + 1, Len(seq))

AllSucceeded ==
    /\ DOMAIN task # {}
    /\ \A i \in DOMAIN task :
         task[i].st = "exited" /\ task[i].rc = 0 /\ task[i].n = task[i].samples

\* C1: when every worker succeeded, having written exactly its sample count
\* into a partition database that did not exist before the run, the finished
\* run has added to the master table exactly the rows the workers wrote, each
\* once: as many rows as the sum of the partitions' sample counts.
C1_ExactlyOnce ==
    (pc = "done" /\ exc = "none" /\ fresh /\ AllSucceeded) =>
        /\ Len(MasterRows) - master0 = SumSamples(DOMAIN task)
        /\ \A i \in DOMAIN task : \A k \in 1 .. task[i].samples :
             Count(Row(i, k), Tail0(MasterRows, master0)) = 1

C1_Witness ==
    /\ pc = "done"
    /\ AllSucceeded
    /\ arguments.pnum = 2
    /\ simulations = 2
    /\ Len(MasterRows) - master0 = 4

\* C2: while any child of the pool has not exited, the main process has no
\* database connection open, has opened no partition database and has
\* inserted nothing: it is still inside starmap.
C2_Barrier ==
    (\E i \in DOMAIN task : task[i].st \in {"queued", "running"}) =>
        /\ pc = "starmap"
        /\ main_db = "closed"
        /\ sec_dbs = <<>>
        /\ pending = <<>>
        /\ Len(MasterRows) = master0

C2_Witness ==
    /\ pc = "starmap"
    /\ \E i, k \in DOMAIN task :
         /\ task[i].st = "exited" /\ task[i].rc = 1
         /\ task[k].st = "running"

\* C3: every row a worker has written is in its partition database or in
\* the committed master table.
C3_NoLoss ==
    \A w \in written :
        \/ InSeq(w, MasterRows)
        \/ InSeq(w, fs[PartPath(RecDb, w[2])].rows)

C3_Witness ==
    \E w \in written :
        /\ ~fs[PartPath(RecDb, w[2])].exists
        /\ InSeq(w, MasterRows)

\* The integer nearest to s / p, the even one of two equally near.
Nearest(q, s, p) ==
    LET d == 2 * (s - q * p)
    IN  \/ (-p) < d /\ d < p
        \/ (d = p \/ d = -p) /\ q % 2 = 0

DigitValue(c) == CHOOSE d \in 0 .. 9 : Digit(d) = c

\* The number a decimal numeral stands for.
RECURSIVE ParseInt(_)
ParseInt(numeral) ==
    IF Len(numeral) = 0 THEN 0
    ELSE 10 * ParseInt(SubSeq(numeral, 1, Len(numeral) - 1))
           + DigitValue(numeral[Len(numeral)])

\* C5: the path given to partition i is the destination path, a dash and
\* the decimal numeral of i; the paths of two partitions differ and none is
\* the destination path.
C5_Paths ==
    pc = "starmap" =>
        \A i \in DOMAIN task :
            LET p == task[i].recdb
                n == Len(arguments.recdb)
            IN  /\ p # arguments.recdb
                /\ Len(p) > n + 1
                /\ SubSeq(p, 1, n + 1) = arguments.recdb \o <<"-">>
                /\ ParseInt(SubSeq(p, n + 2, Len(p))) = i
                /\ \A k \in DOMAIN task : k # i => task[k].recdb # p

C5_Witness ==
    /\ pc = "starmap"
    /\ arguments.pnum = 11
    /\ task[10].recdb = <<"d", "b", "-", "1", "0">>
    /\ task[1].recdb = <<"d", "b", "-", "1">>

Running == {i \in DOMAIN task : task[i].st = "running"}

\* The databases of the partitions, for the command line of the run.
PartitionPaths == {PartPath(cmdline.recdb, i) : i \in Range(cmdline.pnum)}

\* C6: no two tasks are given the same database and none is given the
\* master database; a partition database changes during the pool only by a
\* step of the one running task it was given to, and otherwise only by the
\* main process after the pool, when no child runs; the master database
\* changes only by the main process, after the pool.
C6_Exclusive ==
    /\ [](\A i \in DOMAIN task :
            /\ task[i].recdb # cmdline.recdb
            /\ \A k \in DOMAIN task : k # i => task[k].recdb # task[i].recdb)
    /\ [][/\ fs'[cmdline.recdb] # fs[cmdline.recdb] =>
               (pc \in {"connect", "create", "select"} /\ Running = {})
          /\ \A p \in PartitionPaths :
               fs'[p] # fs[p] =>
                 \/ /\ pc = "starmap"
                    /\ Cardinality({i \in Running : task[i].recdb = p}) = 1
                    /\ \E i \in Running :
                         /\ task[i].recdb = p
                         /\ task'[i] # task[i]
                         /\ \A k \in DOMAIN task \ {i} : task'[k] = task[k]
                 \/ /\ pc \in {"open", "remove"}
                    /\ Running = {}]_vars

C6_Witness ==
    \E i, k \in Running :
        /\ i # k
        /\ task[i].n >= 1
        /\ task[k].n >= 1
        /\ fs[task[i].recdb].rows # fs[task[k].recdb].rows

NoDuplicates(seq) == \A a, b \in 1 .. Len(seq) : a # b => seq[a] # seq[b]

\* C7: the partition databases the loop goes through are distinct, so each
\* is read once; the rows inserted so far are the rows of the databases
\* already read, followed by the first records of the one being read, each
\* row once, unchanged and in order; the commit adds to the master table
\* the rows of all the partition databases.
C7_CopiedOnce ==
    /\ NoDuplicates(sec_dbs)
    /\ pc = "select" => pending = StoreRows(sec_dbs, j - 1)
    /\ pc = "insert" =>
         /\ sec_records = fs[sec_dbs[j]].rows
         /\ pending = StoreRows(sec_dbs, j - 1) \o SubSeq(sec_records, 1, r - 1)
    /\ (pc = "remove" /\ rm = 0) =>
         /\ Len(sec_dbs) = arguments.pnum
         /\ Tail0(MasterRows, master0) = StoreRows(sec_dbs, Len(sec_dbs))

C7_Witness ==
    /\ pc = "remove"
    /\ rm = 0
    /\ arguments.pnum = 2
    /\ Len(fs[sec_dbs[1]].rows) = 2
    /\ Len(fs[sec_dbs[2]].rows) = 1
    /\ Len(MasterRows) = 3

\* C8 as stated: no row a worker has written is in the master table twice,
\* also when a run is killed and the command is run again.
C8_NeverTwice == \A w \in written : Count(w, MasterRows) <= 1

\* C9 as stated: a child that exits with a non-zero status does not end the
\* run with an exception, and once the run has committed, the rows this
\* child wrote are in the master table.
C9_FailureTolerated ==
    \A i \in DOMAIN task :
        (task[i].st = "exited" /\ task[i].rc # 0) =>
            /\ exc = "none"
            /\ pc \in {"remove", "done"} =>
                 \A k \in 1 .. task[i].n : InSeq(Row(i, k), MasterRows)

\* C10 as stated: a partition database without the experiment table does
\* not end the run with an exception, and the finished run has committed
\* the rows of the other partitions.
C10_Skipped ==
    (\E k \in 1 .. Len(sec_dbs) : ~fs[sec_dbs[k]].table) =>
        /\ exc = "none"
        /\ pc = "done" => \A w \in written : InSeq(w, MasterRows)

AggregationPcs == {"connect", "create", "open", "select", "insert", "remove"}

IsPrefix(a, b) == Len(a) <= Len(b) /\ SubSeq(b, 1, Len(a)) = a

\* C11: when bin/PerformE is missing or cannot be executed, no child runs,
\* the run never gets to the resource collection (no connection, no insert)
\* and no step of it changes a file: nothing is inserted into the master
\* table and no partition database is deleted.
C11_LaunchFatal ==
    /\ [](performE # "ok" =>
            /\ pc \notin AggregationPcs
            /\ Running = {}
            /\ main_db = "closed"
            /\ pending = <<>>
            /\ sec_dbs = <<>>
            /\ Len(MasterRows) = master0)
    /\ [][performE # "ok" => fs' = fs]_vars

C11_Witness ==
    /\ performE = "noexec"
    /\ pc = "error"
    /\ exc = "PermissionError"
    /\ DOMAIN task = Range(2)
    /\ \A i \in DOMAIN task : task[i].st = "raised"

\* The rows inserted through main_cursor when the loop is at database j,
\* record r.
InsertedSoFar == StoreRows(sec_dbs, j - 1) \o SubSeq(sec_records, 1, r - 1)

\* C12 as stated: after an INSERT has failed, the rows inserted before it
\* are in the master table.
C12_Retained ==
    exc = "DatabaseError" =>
        \A k \in 1 .. Len(InsertedSoFar) : InSeq(InsertedSoFar[k], MasterRows)

\* C13 as stated: a run in which a child exited with a non-zero status
\* ends with a non-zero exit status.
C13_FailureReported ==
    (pc = "done" /\ \E i \in DOMAIN task :
                      task[i].st = "exited" /\ task[i].rc # 0) =>
        ExitStatus # 0

\* C14 as stated: a run ends with exit status 0 only when bin/PerformE was
\* there, every partition was launched and every row written was merged.
C14_ExitCode ==
    (pc \in {"done", "error"} /\ ExitStatus = 0) =>
        /\ performE = "ok"
        /\ DOMAIN task = Range(cmdline.pnum)
        /\ \A i \in DOMAIN task : task[i].st = "exited"
        /\ \A w \in written : InSeq(w, MasterRows)

\* C15: with -pnum <= 0 there is never a task, the main process never gets
\* past the creation of the pool, opens no database and inserts nothing,
\* no step changes a file, and a run that has parsed its arguments ends
\* with the exception of line 139 or of Pool (the only run to end without
\* one is the run that stopped at the missing bin/PerformE, before parsing).
C15_InvalidPnum ==
    /\ [](cmdline.pnum <= 0 =>
            /\ DOMAIN task = {}
            /\ pc \in {"start", "args", "pool"} \cup Finished
            /\ main_db = "closed"
            /\ pending = <<>>
            /\ sec_dbs = <<>>
            /\ pc = "error" => exc \in {"ZeroDivisionError", "ValueError"}
            /\ pc = "done" => (performE = "absent" /\ ~arguments.parsed))
    /\ [][cmdline.pnum <= 0 => fs' = fs]_vars

C15_Witness ==
    /\ cmdline.pnum = -1
    /\ pc = "error"
    /\ exc = "ValueError"
    /\ \A p \in AllPaths : ~fs[p].exists

\* C16: a step never takes the table away from the master database nor
\* removes or changes a row of it, and the CREATE TABLE IF NOT EXISTS of
\* lines 149-153 on a master database that has the table leaves the
\* database as it is.
C16_CreateIdempotent ==
    [][/\ fs[cmdline.recdb].table => fs'[cmdline.recdb].table
       /\ IsPrefix(fs[cmdline.recdb].rows, fs'[cmdline.recdb].rows)
       /\ (pc = "create" /\ fs[cmdline.recdb].table) =>
             fs'[cmdline.recdb] = fs[cmdline.recdb]]_vars

C16_Witness ==
    /\ run = 2
    /\ pc = "open"
    /\ master0 >= 2
    /\ Len(MasterRows) = master0

\* C17: the master table exists before a row is inserted; the master file,
\* once there, stays, with its rows only ever appended to; and a file that
\* is deleted is the database of a partition, deleted by line 170.
C17_MasterKept ==
    /\ []((pending # <<>> \/ pc \in {"select", "insert", "remove"}) =>
            fs[cmdline.recdb].table)
    /\ [][/\ fs[cmdline.recdb].exists => fs'[cmdline.recdb].exists
          /\ Len(fs[cmdline.recdb].rows) <= Len(fs'[cmdline.recdb].rows)
          /\ \A p \in AllPaths :
               (fs[p].exists /\ ~fs'[p].exists) =>
                 /\ pc = "remove"
                 /\ p # cmdline.recdb
                 /\ \E i \in Range(cmdline.pnum) :
                      p = cmdline.recdb \o <<"-">> \o Dec(i)]_vars

C17_Witness ==
    /\ pc = "done"
    /\ exc = "none"
    /\ fs[RecDb].table
    /\ Len(MasterRows) >= 2
    /\ PartitionFiles = {}
    /\ written # {}

\* C18: when all workers succeeded and the run is over, none of the
\* databases recdb-0 .. recdb-(pnum-1) is on the disk.
C18_AllDeleted ==
    (pc = "done" /\ AllSucceeded) =>
        /\ \A i \in Range(arguments.pnum) :
             ~fs[arguments.recdb \o <<"-">> \o Dec(i)].exists
        /\ PartitionFiles = {}

C18_Witness ==
    /\ pc = "done"
    /\ AllSucceeded
    /\ arguments.pnum = 3
    /\ Len(MasterRows) = 3
    /\ ~fs[<<"d", "b", "-", "2">>].exists

\* C19 as stated: the cleanup does not raise when the database of a
\* partition is no longer there.
C19_MissingIgnored == exc # "FileNotFoundError"

Launched == {i \in DOMAIN task : task[i].argv # <<>>}

IsNumeral(a) == Len(a) >= 1 /\ \A k \in 1 .. Len(a) : \E d \in 0 .. 9 : a[k] = Digit(d)

\* The values of the experiment's configuration, as execute_chunk hands
\* them on.
ConfigBefore ==
    <<<<"hip">>, <<"bright">>, <<"rtable">>, <<"etable">>,
      <<"SCHEMAS[exper]">>, <<"strategy">>, <<"prefix">>, <<"ep1">>,
      <<"ep2">>, <<"ep3">>, <<"ep4">>, <<"nlimit">>, <<"mlimit">>,
      <<"nulimit">>, <<"exper">>>>

ConfigAfter ==
    <<<<"imfov">>, <<"ssiter">>, <<"ssstep">>, <<"esmin">>, <<"esiter">>,
      <<"esstep">>, <<"rmiter">>, <<"rmstep">>, <<"rmsigma">>>>

ConfigValues ==
    {<<"refdb">>} \cup {ConfigBefore[k] : k \in 1 .. Len(ConfigBefore)}
                  \cup {ConfigAfter[k] : k \in 1 .. Len(ConfigAfter)}

\* C20 as stated: after the executable come the configuration values, then
\* the database of the partition, then its sample count as the last element.
C20_PathAndCountLast ==
    \A i \in Launched :
        LET a == task[i].argv
            n == Len(a)
        IN  /\ \A k \in 2 .. (n - 2) : a[k] \in ConfigValues
            /\ a[n - 1] = task[i].recdb
            /\ IsNumeral(a[n])
            /\ ParseInt(a[n]) = task[i].samples

\* C20, amended: the list has a fixed order: the executable, refdb, the
\* database of the partition, the configuration values hip .. exper, the
\* sample count of the partition as a decimal numeral, and the
\* configuration values imfov .. rmsigma.
C20_FixedOrder ==
    \A i \in Launched :
        LET a == task[i].argv
        IN  /\ Len(a) = 28
            /\ a[1] = <<"PerformE">>
            /\ a[2] = <<"refdb">>
            /\ a[3] = task[i].recdb
            /\ a[3] = arguments.recdb \o <<"-">> \o Dec(i)
            /\ SubSeq(a, 4, 18) = ConfigBefore
            /\ IsNumeral(a[19])
            /\ ParseInt(a[19]) = task[i].samples
            /\ SubSeq(a, 20, 28) = ConfigAfter

C20_Witness ==
    \E i \in Running :
        /\ task[i].argv[3] = <<"d", "b", "-", "1">>
        /\ task[i].argv[19] = <<"2">>
        /\ task[i].argv[28] = <<"rmsigma">>

ColumnNames(exper) == {SCHEMAS[exper][c][1] : c \in 1 .. Len(SCHEMAS[exper])}

\* The master table's new rows: committed by this run or still to commit.
NewRows == Tail0(MasterRows, master0) \o pending

\* C21: for each of QUERY, REDUCTION and MAP the INSERT has as many
\* placeholders as the schema has columns, 8, 11 and 13; the columns of MAP
\* are those of REDUCTION with Epsilon4 and IsErrorOut; and no INSERT of a
\* row read from a partition table is refused for its number of values:
\* every row inserted has one value for each column of the schema.
C21_ColumnCounts ==
    /\ \A kind \in Kinds :
         Placeholders(Prepared(kind)) = Len(SCHEMAS[kind])
    /\ Kinds = DOMAIN SCHEMAS
    /\ Len(SCHEMAS["QUERY"]) = 8
    /\ Len(SCHEMAS["REDUCTION"]) = 11
    /\ Len(SCHEMAS["MAP"]) = 13
    /\ ColumnNames("MAP") =
         ColumnNames("REDUCTION") \cup {"Epsilon4", "IsErrorOut"}
    /\ exc # "ProgrammingError"
    /\ \A k \in 1 .. Len(NewRows) :
         Len(NewRows[k]) = Len(SCHEMAS[cmdline.exper])

C21_Witness ==
    /\ pc = "done"
    /\ cmdline.exper = "MAP"
    /\ AllSucceeded
    /\ Len(MasterRows) = 2
    /\ Len(MasterRows[1]) = 13

\* C22 as stated: the sample counts of the pnum partitions sum to -samples.
C22_SumIsTotal ==
    (pc = "starmap" /\ cmdline.pnum >= 1) =>
        /\ DOMAIN task = Range(cmdline.pnum)
        /\ SumSamples(DOMAIN task) = cmdline.samples

\* C26: when -pnum divides -samples, every partition gets samples / pnum
\* and the sample counts sum to -samples.
C26_ExactDivision ==
    (pc = "starmap" /\ cmdline.pnum >= 1
                    /\ cmdline.samples % cmdline.pnum = 0) =>
        /\ DOMAIN task = Range(cmdline.pnum)
        /\ \A i \in DOMAIN task :
             task[i].samples * cmdline.pnum = cmdline.samples
        /\ SumSamples(DOMAIN task) = cmdline.samples

C26_Witness ==
    /\ pc = "starmap"
    /\ cmdline.samples = 12
    /\ cmdline.pnum = 4
    /\ \A i \in 0 .. 3 : task[i].samples = 3

\* C24: the partition databases are taken one at a time in the order of
\* their index; the rows inserted are, in this order, the rows of the
\* databases before the one being read and the rows already taken from it,
\* in the order of the SELECT; so the rows the run adds to the master table
\* are ordered by partition index and, within a partition, as its table
\* has them, whatever the order in which the children exited.
C24_IndexOrder ==
    /\ \A k \in 1 .. Len(sec_dbs) :
         sec_dbs[k] = cmdline.recdb \o <<"-">> \o Dec(k - 1)
    /\ pc = "insert" =>
         /\ sec_records = fs[sec_dbs[j]].rows
         /\ pending = StoreRows(sec_dbs, j - 1) \o SubSeq(sec_records, 1, r - 1)
    /\ pc = "select" => pending = StoreRows(sec_dbs, j - 1)
    /\ \A a, b \in 1 .. Len(NewRows) :
         a < b =>
           \/ NewRows[a][2] < NewRows[b][2]
           \/ NewRows[a][2] = NewRows[b][2] /\ NewRows[a][3] < NewRows[b][3]

C24_Witness ==
    /\ pc = "done"
    /\ exc = "none"
    /\ cmdline.pnum = 2
    /\ Len(MasterRows) = 4
    /\ MasterRows[1][2] = 0 /\ MasterRows[1][3] = 1
    /\ MasterRows[2][2] = 0 /\ MasterRows[2][3] = 2
    /\ MasterRows[3][2] = 1 /\ MasterRows[3][3] = 1
    /\ MasterRows[4][2] = 1 /\ MasterRows[4][3] = 2

\* C25: the tasks of a run are those of the indices 0 .. pnum-1; never more
\* than pnum children run; a task that has made its call never makes it
\* again, and a task whose child has exited stays so; and the main process
\* is past the pool only when every task has made its call.
C25_OncePerPartition ==
    /\ [](/\ Running # {} => Cardinality(Running) <= cmdline.pnum
          /\ DOMAIN task # {} => DOMAIN task = Range(cmdline.pnum)
          /\ pc \in AggregationPcs =>
               (Launched = Range(cmdline.pnum) /\ Running = {}))
    /\ [][\A i \in (DOMAIN task) \cap (DOMAIN task') :
            (/\ task[i].st # "queued" =>
                  (task'[i].st # "queued" /\ task'[i].argv = task[i].argv)
             /\ task[i].st \in {"exited", "raised"} =>
                  task'[i].st = task[i].st)]_vars

C25_Witness ==
    /\ pc = "starmap"
    /\ cmdline.pnum = 3
    /\ Cardinality(Running) = 3

AggregationErrors == {"OperationalError", "DatabaseError", "ProgrammingError"}

\* C27: while the main process collects the rows no existing partition
\* database changes, and when the collection has ended with an exception
\* nothing has been removed: every partition database is there and holds
\* the rows its child wrote.
C27_NothingDeleted ==
    /\ [](exc \in AggregationErrors =>
            /\ rm = 0
            /\ \A k \in 1 .. Len(sec_dbs) : fs[sec_dbs[k]].exists
            /\ \A i \in DOMAIN task :
                 task[i].opened =>
                   /\ fs[task[i].recdb].exists
                   /\ Len(fs[task[i].recdb].rows) = task[i].n
                   /\ \A k \in 1 .. task[i].n :
                        fs[task[i].recdb].rows[k] = Row(i, k))
    /\ [][(pc \in {"connect", "create", "open", "select", "insert"}) =>
            \A p \in AllPaths \ {cmdline.recdb} :
                (fs[p].exists => fs'[p] = fs[p])]_vars

C27_Witness ==
    /\ exc = "DatabaseError"
    /\ cmdline.pnum = 2
    /\ j = 2
    /\ Len(fs[sec_dbs[1]].rows) >= 1
    /\ Len(fs[sec_dbs[2]].rows) >= 1

TaskPaths == {task[i].recdb : i \in DOMAIN task}

\* C28: the arguments do not change once parsed; the databases the main
\* process opens are those the tasks were given, pnum of them; a file is
\* removed only if a task was given it; the cleanup finds every one of its
\* files; and after the cleanup no database of a task is left.
C28_SamePaths ==
    /\ [](/\ sec_dbs # <<>> =>
               /\ {sec_dbs[k] : k \in 1 .. Len(sec_dbs)} = TaskPaths
               /\ Len(sec_dbs) = cmdline.pnum
               /\ Cardinality(TaskPaths) = cmdline.pnum
          /\ exc # "FileNotFoundError"
          /\ (pc = "done" /\ performE = "ok") =>
               (TaskPaths # {} /\ \A p \in TaskPaths : ~fs[p].exists))
    /\ [][/\ (arguments.parsed /\ arguments'.parsed) => arguments' = arguments
          /\ \A p \in AllPaths :
               (fs[p].exists /\ ~fs'[p].exists) => p \in TaskPaths]_vars

C28_Witness ==
    /\ pc = "done"
    /\ performE = "ok"
    /\ cmdline.pnum = 3
    /\ TaskPaths = {<<"d", "b", "-", "0">>, <<"d", "b", "-", "1">>,
                    <<"d", "b", "-", "2">>}
    /\ Len(sec_dbs) = 3
    /\ rm = 3

\* C30: a task exists, and so a child is started, only after the arguments
\* were parsed; the lists of any two calls of a run are equal but for the
\* database of the partition, which differs, and the sample count of every
\* call is the one of line 139.
C30_SameArguments ==
    /\ DOMAIN task # {} => (arguments.parsed /\ pc \notin {"start", "args"})
    /\ \A i \in Launched :
         /\ IsNumeral(task[i].argv[19])
         /\ ParseInt(task[i].argv[19]) = simulations
         /\ \A k \in Launched :
              /\ Len(task[i].argv) = Len(task[k].argv)
              /\ \A c \in 1 .. Len(task[i].argv) :
                   c # 3 => task[i].argv[c] = task[k].argv[c]
              /\ i # k => task[i].argv[3] # task[k].argv[3]

C30_Witness ==
    /\ Cardinality(Running) = 2
    /\ simulations = 2
    /\ task[0].argv[19] = <<"2">>
    /\ task[1].argv[19] = <<"2">>
    /\ task[0].argv[3] = <<"d", "b", "-", "0">>
    /\ task[1].argv[3] = <<"d", "b", "-", "1">>

\* C29: an invocation with bin/PerformE in place and -pnum >= 1, in which
\* every child exits, goes on to its end unless a SELECT is refused; at the
\* end every partition database was read, the rows are committed and the
\* partition databases removed; and the main process can always take its
\* next step except while it waits in starmap, where it goes on as soon as
\* every task has returned.
C29_Terminates ==
    /\ (performE = "ok" /\ cmdline.pnum >= 1) ~>
           (pc = "done" \/ exc = "OperationalError")
    /\ []((pc = "done" /\ performE = "ok") =>
            /\ Len(sec_dbs) = cmdline.pnum
            /\ j > Len(sec_dbs)
            /\ rm = cmdline.pnum
            /\ pending = <<>>
            /\ main_db = "closed"
            /\ PartitionFiles = {})
    /\ []((pc \notin Finished /\ pc # "starmap") => ENABLED MainStep)
    /\ []((pc = "starmap" /\ AllReturned) => ENABLED Barrier)

C29_Witness ==
    /\ pc = "done"
    /\ cmdline.pnum = 2
    /\ rm = 2
    /\ \E i \in DOMAIN task : task[i].rc # 0
    /\ Len(MasterRows) >= 1

\* The entries of a list whose set number is not k, in their order.
RECURSIVE Without(_, _)
Without(ell, k) ==
    IF ell = <<>> THEN <<>>
    ELSE (IF ParseInt(Head(ell)[1]) # k THEN <<Head(ell)>> ELSE <<>>)
             \o Without(Tail(ell), k)

\* C23 as stated: after connect-trials the base file is its header, its
\* data rows without those of the set number k of the first data row of
\* the file to append, and the data rows of the file to append.
C23_OnlySetKRemoved ==
    trials.pc = "done" =>
        trials.base_f.rows =
            <<trials.base_ell[1]>>
              \o Without(Tail(trials.base_ell),
                         ParseInt(trials.append_ell[2][1]))
              \o Tail(trials.append_ell)

====
